---- MODULE Spec2Model ----
(***************************************************************************)
(* Model of src/cod/duplicatepageremover.py: the duplicate/build-slide     *)
(* page remover.  process_pdf is modelled step by step (open, forward      *)
(* scan, sort, prune, save); main is modelled as the batch walker that     *)
(* routes every file of the source tree to process_pdf or to a copy.       *)
(***************************************************************************)
EXTENDS FiniteSets, Integers, Sequences, TLC

\* ---------------------------------------------------------------- bounds
MaxPages == 4   \* longest input document
MaxTop   == 2   \* distinct contents of the top strip
MaxFiles == 3   \* most files in a source tree

\* ------------------------------------------------------ program constants
TOP_FRAC_PCT == 10     \* TOP_FRAC = 0.10, in percent
DPI          == 150

VARIABLES
  \* ---- process_pdf
  src_doc,          \* pages of the file at src_path
  doc,              \* the open fitz document: sequence of pages
  n_pages,          \* len(doc) taken at open
  i,                \* loop variable of the forward scan
  pages_to_delete,  \* list of marked indices (0-based)
  k,                \* position of the pruning loop in pages_to_delete (1-based)
  rendered,         \* get_pixmap calls made: <<i, xref>>
  dst_doc,          \* pages of the file saved at dst_path
  saved,            \* doc.save has written dst_path
  ret,              \* the value process_pdf returned
  pc,               \* position inside process_pdf
  run,              \* 1: first run, 2: run on the output of the first
  removed_log,      \* the "removed N pages" values reported, one per run
  \* ---- main
  src_kind,         \* what args.src names: "missing", "file" or "dir"
  tree,             \* the source tree: path -> content
  mainpc,           \* position inside main
  dir_ix,           \* which directory os.walk is yielding
  files,            \* files of the current directory not yet visited
  writes,           \* destination files written, in order
  total_removed, pdf_count, other_count,
  failed,           \* paths whose processing or copy raised
  summary,          \* the final "Done" line was printed
  exit_code         \* process exit code, -1 while running

pvars == <<src_doc, doc, n_pages, i, pages_to_delete, k, rendered, dst_doc,
           saved, ret, pc, run, removed_log>>
mvars == <<src_kind, tree, mainpc, dir_ix, files, writes, total_removed,
           pdf_count, other_count, failed, summary, exit_code>>
vars  == <<pvars, mvars>>

\* ------------------------------------------------------------- documents
\* page sizes (width, height) the input pages are drawn from: two of equal
\* width and two of equal height
PageSizes == {<<4, 3>>, <<4, 9>>, <<16, 9>>}
PageKinds == {[w |-> sz[1], h |-> sz[2], top |-> t] :
                sz \in PageSizes, t \in 1..MaxTop}
Docs      == UNION {[1..n -> PageKinds] : n \in 0..MaxPages}

Range(s) == {s[j] : j \in DOMAIN s}

\* fitz.open: the pages of the file, each with its identity (xref)
Open(f) == [j \in 1..Len(f) |->
              [xref |-> j, w |-> f[j].w, h |-> f[j].h, top |-> f[j].top]]

\* the file written by doc.save: page contents without identities
Contents(d) == [j \in 1..Len(d) |-> [w |-> d[j].w, h |-> d[j].h, top |-> d[j].top]]

\* doc[ix], 0-based
PageAt(d, ix) == d[ix + 1]

\* page.rect
Rect(p) == [x0 |-> 0, y0 |-> 0, x1 |-> p.w, y1 |-> p.h]

\* top_clip: y1 in hundredths of a unit (y0 + h * TOP_FRAC)
TopClip(r) == [x0 |-> r.x0, y0 |-> r.y0 * 100, x1 |-> r.x1,
               y1 |-> r.y0 * 100 + (r.y1 - r.y0) * TOP_FRAC_PCT]

\* render_region: the raw samples of the clip at DPI; their extent follows
\* from the clip and the resolution, their content from the page's strip
render_region(p, clip) ==
  [cols |-> (clip.x1 - clip.x0) * DPI,
   rows |-> (clip.y1 - clip.y0) * DPI,
   pix  |-> p.top]

\* mutant: only the width is compared before rasterizing
regions_match_width_only(a, b) ==
  IF Rect(a).x1 - Rect(a).x0 # Rect(b).x1 - Rect(b).x0
    THEN [match |-> FALSE, raster |-> {}]
    ELSE [match  |-> render_region(a, TopClip(Rect(a))) = render_region(b, TopClip(Rect(a))),
          raster |-> {a.xref, b.xref}]

\* regions_match: the verdict and the pages it rasterized
regions_match(a, b) ==
  IF <<Rect(a).x1 - Rect(a).x0, Rect(a).y1 - Rect(a).y0>>
       # <<Rect(b).x1 - Rect(b).x0, Rect(b).y1 - Rect(b).y0>>
    THEN [match |-> FALSE, raster |-> {}]
    ELSE [match  |-> render_region(a, TopClip(Rect(a))) = render_region(b, TopClip(Rect(a))),
          raster |-> {a.xref, b.xref}]

\* mutant: the scan stops one pair early
ScanRange_short(n) == 1..(n - 2)

\* range(1, n_pages)
ScanRange(n) == 1..(n - 1)

\* mutant: the later page of the pair is marked
Marked_later(ix) == ix

\* the index appended for a matching pair (i-1, i)
Marked(ix) == ix - 1

Max(S) == CHOOSE x \in S : \A y \in S : y <= x
Min(S) == CHOOSE x \in S : \A y \in S : x <= y

RECURSIVE SortedAsc(_)
\* mutant: sorted(set(...)) without reverse=True
SortedAsc(S) == IF S = {} THEN <<>> ELSE <<Min(S)>> \o SortedAsc(S \ {Min(S)})

RECURSIVE SortedDesc(_)
\* sorted(set(pages_to_delete), reverse=True)
SortedDesc(S) == IF S = {} THEN <<>> ELSE <<Max(S)>> \o SortedDesc(S \ {Max(S)})

\* mutant: the splice joins the two halves in the wrong order
delete_page_rotate(d, pg) == SubSeq(d, pg + 2, Len(d)) \o SubSeq(d, 1, pg)

\* doc.delete_page(pg), pg a valid 0-based index
delete_page(d, pg) == SubSeq(d, 1, pg) \o SubSeq(d, pg + 2, Len(d))

\* ------------------------------------------- process_pdf, as one function
MarkedList(d) ==
  LET RECURSIVE Scan(_)
      Scan(ix) == IF ix \notin ScanRange(Len(d)) THEN <<>>
                  ELSE (IF regions_match(PageAt(d, ix - 1), PageAt(d, ix)).match
                          THEN <<Marked(ix)>> ELSE <<>>) \o Scan(ix + 1)
  IN Scan(1)

RECURSIVE Prune(_, _)
Prune(d, lst) == IF lst = <<>> THEN d
                 ELSE Prune(delete_page(d, Head(lst)), Tail(lst))

process_pdf(f) ==
  IF Len(f) <= 1 THEN [out |-> f, removed |-> 0]
  ELSE LET lst == SortedDesc(Range(MarkedList(Open(f))))
       IN [out |-> Contents(Prune(Open(f), lst)), removed |-> Len(lst)]

\* -------------------------------------------------- process_pdf, stepwise
\* doc = fitz.open(src_path); n_pages = len(doc)
OpenDoc ==
  /\ pc = "start"
  /\ doc' = Open(src_doc)
  /\ n_pages' = Len(src_doc)
  /\ rendered' = {}
  /\ pc' = "opened"
  /\ UNCHANGED <<src_doc, i, pages_to_delete, k, dst_doc, saved, ret, run,
                 removed_log, mvars>>

\* mutant: the early return forgets to save
ReturnTrivial_nosave ==
  /\ pc = "opened"
  /\ n_pages <= 1
  /\ ret' = 0
  /\ removed_log' = Append(removed_log, 0)
  /\ pc' = "done"
  /\ UNCHANGED <<src_doc, doc, n_pages, i, pages_to_delete, k, rendered, dst_doc,
                 saved, run, mvars>>

\* if n_pages <= 1: save, close, return 0
ReturnTrivial ==
  /\ pc = "opened"
  /\ n_pages <= 1
  /\ dst_doc' = doc
  /\ saved' = TRUE
  /\ ret' = 0
  /\ removed_log' = Append(removed_log, 0)
  /\ pc' = "done"
  /\ UNCHANGED <<src_doc, doc, n_pages, i, pages_to_delete, k, rendered, run, mvars>>

\* pages_to_delete = []; enter the for loop
BeginScan ==
  /\ pc = "opened"
  /\ n_pages > 1
  /\ pages_to_delete' = <<>>
  /\ i' = 1
  /\ pc' = "scan"
  /\ UNCHANGED <<src_doc, doc, n_pages, k, rendered, dst_doc, saved, ret, run,
                 removed_log, mvars>>

\* mutant: a matching earlier page is deleted as soon as it is found
ScanStep_eager ==
  /\ pc = "scan"
  /\ i \in ScanRange(n_pages)
  /\ IF i < Len(doc)
       THEN LET m == regions_match(PageAt(doc, i - 1), PageAt(doc, i))
            IN /\ rendered' = rendered \cup {<<i, x>> : x \in m.raster}
               /\ IF m.match
                    THEN /\ pages_to_delete' = Append(pages_to_delete, Marked(i))
                         /\ doc' = delete_page(doc, Marked(i))
                    ELSE UNCHANGED <<pages_to_delete, doc>>
       ELSE UNCHANGED <<rendered, pages_to_delete, doc>>
  /\ i' = i + 1
  /\ UNCHANGED <<src_doc, n_pages, k, dst_doc, saved, ret, pc, run,
                 removed_log, mvars>>

\* one iteration of: for i in range(1, n_pages)
ScanStep ==
  /\ pc = "scan"
  /\ i \in ScanRange(n_pages)
  /\ LET m == regions_match(PageAt(doc, i - 1), PageAt(doc, i))
     IN /\ rendered' = rendered \cup {<<i, x>> : x \in m.raster}
        /\ pages_to_delete' = IF m.match THEN Append(pages_to_delete, Marked(i))
                                         ELSE pages_to_delete
  /\ i' = i + 1
  /\ UNCHANGED <<src_doc, doc, n_pages, k, dst_doc, saved, ret, pc, run,
                 removed_log, mvars>>

\* the scan is exhausted: pages_to_delete = sorted(set(...), reverse=True)
SortMarked ==
  /\ pc = "scan"
  /\ i \notin ScanRange(n_pages)
  /\ pages_to_delete' = SortedDesc(Range(pages_to_delete))
  /\ k' = 1
  /\ pc' = "prune"
  /\ UNCHANGED <<src_doc, doc, n_pages, i, rendered, dst_doc, saved, ret, run,
                 removed_log, mvars>>

\* one iteration of: for pg in pages_to_delete: doc.delete_page(pg)
\* (delete_page raises on an index outside the document)
PruneStep ==
  /\ pc = "prune"
  /\ k <= Len(pages_to_delete)
  /\ LET pg == pages_to_delete[k]
     IN IF pg \in 0..(Len(doc) - 1)
          THEN /\ doc' = delete_page(doc, pg)
               /\ k' = k + 1
               /\ pc' = "prune"
          ELSE /\ pc' = "raised"
               /\ UNCHANGED <<doc, k>>
  /\ UNCHANGED <<src_doc, n_pages, i, pages_to_delete, rendered, dst_doc, saved,
                 ret, run, removed_log, mvars>>

\* doc.save(dst_path, garbage=4, deflate=True); close; return len(...)
SaveReturn ==
  /\ pc = "prune"
  /\ k > Len(pages_to_delete)
  /\ dst_doc' = doc
  /\ saved' = TRUE
  /\ ret' = Len(pages_to_delete)
  /\ removed_log' = Append(removed_log, Len(pages_to_delete))
  /\ pc' = "done"
  /\ UNCHANGED <<src_doc, doc, n_pages, i, pages_to_delete, k, rendered, run, mvars>>

\* the pipeline is run again with the processed output as its input
Rerun ==
  /\ pc = "done"
  /\ run = 1
  /\ src_doc' = Contents(dst_doc)
  /\ run' = 2
  /\ doc' = <<>>
  /\ n_pages' = 0
  /\ i' = 0
  /\ pages_to_delete' = <<>>
  /\ k' = 0
  /\ rendered' = {}
  /\ dst_doc' = <<>>
  /\ saved' = FALSE
  /\ ret' = 0
  /\ pc' = "start"
  /\ UNCHANGED <<removed_log, mvars>>

\* ------------------------------------------------------------------ main
UPPER == <<"A","B","C","D","E","F","G","H","I","J","K","L","M",
           "N","O","P","Q","R","S","T","U","V","W","X","Y","Z">>
LOWER == <<"a","b","c","d","e","f","g","h","i","j","k","l","m",
           "n","o","p","q","r","s","t","u","v","w","x","y","z">>

\* str.lower, character by character
LowerChar(c) == IF \E j \in DOMAIN UPPER : UPPER[j] = c
                  THEN LOWER[CHOOSE j \in DOMAIN UPPER : UPPER[j] = c]
                  ELSE c
Lower(s) == [j \in DOMAIN s |-> LowerChar(s[j])]

\* str.endswith
EndsWith(s, suf) ==
  /\ Len(s) >= Len(suf)
  /\ SubSeq(s, Len(s) - Len(suf) + 1, Len(s)) = suf

DotPdf == <<".", "p", "d", "f">>

\* mutant: the extension test forgets lower()
IsPdfName_cased(fname) == EndsWith(fname, DotPdf)

\* fname.lower().endswith(".pdf")
IsPdfName(fname) == EndsWith(Lower(fname), DotPdf)

\* the file names, directories and contents a source tree is drawn from
FileNames == {<<"a", ".", "p", "d", "f">>, <<"B", ".", "P", "D", "F">>,
              <<"n", ".", "t", "x", "t">>, <<"p", "d", "f">>}
WalkDirs  == <<".", "sub">>
Paths     == {<<d, f>> : d \in Range(WalkDirs), f \in FileNames}
\* "deck": a readable PDF; "junk": readable bytes that are no PDF;
\* "locked": a file that cannot be read
FileKinds == {"deck", "junk", "locked"}
Deck      == <<[w |-> 4, h |-> 3, top |-> 1], [w |-> 4, h |-> 3, top |-> 1],
               [w |-> 4, h |-> 3, top |-> 1], [w |-> 4, h |-> 3, top |-> 2]>>
Trees     == UNION {[P -> FileKinds] :
                      P \in {Q \in SUBSET Paths : Cardinality(Q) <= MaxFiles}}

\* the directories os.walk(SRC_DIR) yields, top-down; a top that is not a
\* directory yields nothing (scandir's error is ignored)
Walk(kind) == IF kind = "dir" THEN WalkDirs ELSE <<>>

FilesOf(t, d) == {p \in DOMAIN t : p[1] = d}

\* if not SRC_DIR.exists(): print, sys.exit(1); otherwise set up the walk
CheckSource ==
  /\ mainpc = "start"
  /\ IF src_kind = "missing"
       THEN /\ exit_code' = 1
            /\ mainpc' = "exited"
            /\ UNCHANGED <<dir_ix, files>>
       ELSE /\ mainpc' = "walk"
            /\ dir_ix' = 1
            /\ files' = IF Len(Walk(src_kind)) >= 1
                          THEN FilesOf(tree, Walk(src_kind)[1]) ELSE {}
            /\ UNCHANGED exit_code
  /\ UNCHANGED <<src_kind, tree, writes, total_removed, pdf_count, other_count,
                 failed, summary, pvars>>

\* a file of the current directory whose name ends in .pdf: process_pdf;
\* an exception raised by fitz leaves main uncaught
ProcessFile ==
  /\ mainpc = "walk"
  /\ dir_ix <= Len(Walk(src_kind))
  /\ \E p \in files :
       /\ IsPdfName(p[2])
       /\ files' = files \ {p}
       /\ pdf_count' = pdf_count + 1
       /\ IF tree[p] = "deck"
            THEN /\ writes' = Append(writes, [path |-> p, how |-> "processed",
                                              data |-> process_pdf(Deck).out])
                 /\ total_removed' = total_removed + process_pdf(Deck).removed
                 /\ UNCHANGED <<mainpc, failed, exit_code>>
            ELSE /\ failed' = failed \cup {p}
                 /\ mainpc' = "raised"
                 /\ exit_code' = 1
                 /\ UNCHANGED <<writes, total_removed>>
  /\ UNCHANGED <<src_kind, tree, dir_ix, other_count, summary, pvars>>

\* any other file: shutil.copy2; an exception leaves main uncaught
CopyFile ==
  /\ mainpc = "walk"
  /\ dir_ix <= Len(Walk(src_kind))
  /\ \E p \in files :
       /\ ~IsPdfName(p[2])
       /\ files' = files \ {p}
       /\ IF tree[p] # "locked"
            THEN /\ writes' = Append(writes, [path |-> p, how |-> "copied",
                                              data |-> tree[p]])
                 /\ other_count' = other_count + 1
                 /\ UNCHANGED <<mainpc, failed, exit_code>>
            ELSE /\ failed' = failed \cup {p}
                 /\ mainpc' = "raised"
                 /\ exit_code' = 1
                 /\ UNCHANGED <<writes, other_count>>
  /\ UNCHANGED <<src_kind, tree, dir_ix, total_removed, pdf_count, summary, pvars>>

\* the inner loop is exhausted: os.walk yields the next directory
NextDir ==
  /\ mainpc = "walk"
  /\ dir_ix <= Len(Walk(src_kind))
  /\ files = {}
  /\ dir_ix' = dir_ix + 1
  /\ files' = IF dir_ix + 1 <= Len(Walk(src_kind))
                THEN FilesOf(tree, Walk(src_kind)[dir_ix + 1]) ELSE {}
  /\ UNCHANGED <<src_kind, tree, mainpc, writes, total_removed, pdf_count,
                 other_count, failed, summary, exit_code, pvars>>

\* the walk is exhausted: print the "Done" line and return
PrintSummary ==
  /\ mainpc = "walk"
  /\ dir_ix > Len(Walk(src_kind))
  /\ summary' = TRUE
  /\ exit_code' = 0
  /\ mainpc' = "done"
  /\ UNCHANGED <<src_kind, tree, dir_ix, files, writes, total_removed,
                 pdf_count, other_count, failed, pvars>>

ProcessIdle ==
  /\ src_doc = <<>> /\ doc = <<>> /\ n_pages = 0 /\ i = 0
  /\ pages_to_delete = <<>> /\ k = 0 /\ rendered = {} /\ dst_doc = <<>>
  /\ saved = FALSE /\ ret = 0 /\ pc = "idle" /\ run = 1 /\ removed_log = <<>>

InitMain ==
  /\ src_kind \in {"missing", "file", "dir"}
  /\ tree \in IF src_kind = "dir" THEN Trees ELSE {<<>>}
  /\ mainpc = "start" /\ dir_ix = 0 /\ files = {} /\ writes = <<>>
  /\ total_removed = 0 /\ pdf_count = 0 /\ other_count = 0 /\ failed = {}
  /\ summary = FALSE /\ exit_code = -1
  /\ ProcessIdle

NextMain ==
  \/ CheckSource
  \/ ProcessFile
  \/ CopyFile
  \/ NextDir
  \/ PrintSummary

SpecMain == InitMain /\ [][NextMain]_vars

MainIdle ==
  /\ src_kind = "dir" /\ tree = <<>> /\ mainpc = "idle" /\ dir_ix = 0
  /\ files = {} /\ writes = <<>> /\ total_removed = 0 /\ pdf_count = 0
  /\ other_count = 0 /\ failed = {} /\ summary = FALSE /\ exit_code = -1

Init ==
  /\ src_doc \in Docs
  /\ doc = <<>> /\ n_pages = 0 /\ i = 0 /\ pages_to_delete = <<>> /\ k = 0
  /\ rendered = {} /\ dst_doc = <<>> /\ saved = FALSE /\ ret = 0
  /\ pc = "start" /\ run = 1 /\ removed_log = <<>>
  /\ MainIdle

Next ==
  \/ OpenDoc
  \/ ReturnTrivial
  \/ BeginScan
  \/ ScanStep
  \/ SortMarked
  \/ PruneStep
  \/ SaveReturn
  \/ Rerun

Spec == Init /\ [][Next]_vars
\* ================================================================ properties
SameDims(p, q) == p.w = q.w /\ p.h = q.h
SamePage(p, q) == SameDims(p, q) /\ p.top = q.top

\* pages a..b of f (1-based) all have equal dimensions and identical tops
Chain(f, a, b) == a <= b /\ \A j \in a..b : SamePage(f[j], f[a])

\* the chain is not continued by the page that follows it
EndsRun(f, b) == b = Len(f) \/ ~SamePage(f[b + 1], f[b])

\* identities (input positions) of the pages in the saved document
Kept == {dst_doc[j].xref : j \in DOMAIN dst_doc}

C3_Subsequence ==
  (pc = "done" /\ saved) =>
    /\ Len(dst_doc) <= Len(src_doc)
    /\ \A j \in DOMAIN dst_doc :
         /\ dst_doc[j].xref \in 1..Len(src_doc)
         /\ SamePage(dst_doc[j], src_doc[dst_doc[j].xref])
    /\ \A j \in 1..(Len(dst_doc) - 1) : dst_doc[j].xref < dst_doc[j + 1].xref

C3_Witness ==
  /\ pc = "done" /\ run = 1
  /\ Len(src_doc) = 4
  /\ Kept = {1, 3, 4}

\* C4: a pair of adjacent pages of different (width, height) is never
\* rasterized and never marks its earlier page, whatever the pixels.
C4_DimsDiffer ==
  \A ix \in 1..(Len(src_doc) - 1) :
    ~SameDims(src_doc[ix], src_doc[ix + 1]) =>
      /\ \A x \in 1..Len(src_doc) : <<ix, x>> \notin rendered
      /\ (ix - 1) \notin Range(pages_to_delete)
      /\ (pc = "done" => ix \in Kept)

C4_Witness ==
  /\ pc = "done"
  /\ Len(src_doc) >= 3
  /\ \E ix \in 1..(Len(src_doc) - 1) :
       /\ ~SameDims(src_doc[ix], src_doc[ix + 1])
       /\ src_doc[ix].top = src_doc[ix + 1].top
       /\ ix \in Kept
  /\ rendered # {}

\* C5: a document of at most one page is never compared and never pruned;
\* it is saved with its page count and 0 is returned.
C5_Trivial ==
  Len(src_doc) <= 1 =>
    /\ pc \in {"start", "opened", "done"}
    /\ rendered = {}
    /\ pages_to_delete = <<>>
    /\ pc = "opened" => doc = Open(src_doc)
    /\ pc = "done" => /\ saved
                      /\ Len(dst_doc) = Len(src_doc)
                      /\ ret = 0

C5_Witness ==
  /\ pc = "done" /\ run = 1 /\ Len(src_doc) = 1 /\ saved /\ Len(dst_doc) = 1

\* the indices a scan of the unmodified input marks
DeletionSet == {ix - 1 : ix \in {j \in 1..(Len(src_doc) - 1) :
                  regions_match(Open(src_doc)[j], Open(src_doc)[j + 1]).match}}

\* C9: detection and pruning do not interleave: while the scan runs the
\* document is the unmodified input and no step changes it; the list
\* pruned is exactly the deletion set of the input and no pruning step
\* changes it.
C9_TwoPhases ==
  /\ [](pc = "scan" => doc = Open(src_doc))
  /\ [](pc = "prune" => Range(pages_to_delete) = DeletionSet)
  /\ [][(pc \in {"opened", "scan"}) => (doc' = doc)]_vars
  /\ [][(pc = "prune" /\ pc' \in {"prune", "done"})
          => (pages_to_delete' = pages_to_delete)]_vars

C9_Witness ==
  /\ pc = "prune" /\ k = 2
  /\ Len(pages_to_delete) = 2
  /\ Len(doc) = n_pages - 1

\* C10: pruning deletes in strictly descending order; each index deleted is
\* valid for the current document and holds the page that had that index
\* in the input; the returned count is input length minus output length.
C10_Descending ==
  /\ pc # "raised"
  /\ pc = "prune" =>
       /\ \A a, b \in DOMAIN pages_to_delete :
            a < b => pages_to_delete[a] > pages_to_delete[b]
       /\ k <= Len(pages_to_delete) =>
            LET pg == pages_to_delete[k]
            IN /\ 0 <= pg /\ pg < Len(doc)
               /\ PageAt(doc, pg).xref = pg + 1
       /\ Len(doc) = n_pages - (k - 1)
  /\ pc = "done" => ret = Len(src_doc) - Len(dst_doc)

C10_Witness ==
  /\ pc = "prune" /\ k = 3
  /\ pages_to_delete = <<2, 0>>
  /\ Len(doc) = 2

\* ------------------------------------------------------------ main
Terminated == mainpc \in {"exited", "raised", "done"}

\* C6: a source root that is missing or is not a directory ends main with
\* exit code 1 at the check, and nothing is processed, copied or written.
C6_InvalidSource ==
  src_kind \in {"missing", "file"} =>
    /\ writes = <<>> /\ pdf_count = 0 /\ other_count = 0
    /\ Terminated => (mainpc = "exited" /\ exit_code = 1 /\ ~summary)

\* the name ends in .pdf, in any mix of cases
PdfSuffix(fname) ==
  /\ Len(fname) >= 4
  /\ fname[Len(fname) - 3] = "."
  /\ fname[Len(fname) - 2] \in {"p", "P"}
  /\ fname[Len(fname) - 1] \in {"d", "D"}
  /\ fname[Len(fname)] \in {"f", "F"}

WritesTo(p) == {j \in DOMAIN writes : writes[j].path = p}

\* C7: after a completed run every source file has exactly one destination
\* file at its relative path, written by process_pdf when its name ends in
\* .pdf (any case) and copied unchanged otherwise; nothing else is written.
C7_Mirror ==
  mainpc = "done" =>
    /\ \A p \in DOMAIN tree :
         /\ Cardinality(WritesTo(p)) = 1
         /\ \A j \in WritesTo(p) :
              IF PdfSuffix(p[2])
                THEN writes[j].how = "processed"
                     /\ writes[j].data = process_pdf(Deck).out
                ELSE writes[j].how = "copied" /\ writes[j].data = tree[p]
    /\ Len(writes) = Cardinality(DOMAIN tree)
    /\ pdf_count + other_count = Cardinality(DOMAIN tree)

C7_Witness ==
  /\ mainpc = "done"
  /\ Len(writes) = 3
  /\ \E a, b, c \in DOMAIN tree :
       /\ a[2] = <<"B", ".", "P", "D", "F">> /\ a[1] = "sub"
       /\ b[2] = <<"n", ".", "t", "x", "t">>
       /\ c[2] = <<"a", ".", "p", "d", "f">> /\ c[1] = "."
  /\ total_removed = 2 * process_pdf(Deck).removed /\ process_pdf(Deck).removed = 2

\* C8: a file whose processing or copy fails does not stop the batch: the
\* other files are still written and the summary is printed.
C8_FailureScoped ==
  (Terminated /\ failed # {}) =>
    /\ summary
    /\ \A p \in DOMAIN tree \ failed : WritesTo(p) # {}
====
